---- MODULE Spec2Model ----
(***************************************************************************)
(* Model of static/js/draw.js: two DOMContentLoaded listeners, each of     *)
(* which snapshots the '.draw-card' elements of the document and, for the  *)
(* element at index i, sets a one-shot timer of i * 700 ms whose callback  *)
(* adds the class 'revealed' to that element.                              *)
(*                                                                         *)
(* The document is a sequence of element identities in document order;     *)
(* every element has a class set.  Time is a discrete clock, in ms, that   *)
(* starts at the ready signal.  The two listeners run back to back inside  *)
(* the one dispatch of the event: no timer callback runs between them, and *)
(* the dispatch is taken to last less than one stride.  After the dispatch *)
(* the page may still insert elements and add the card marker.             *)
(***************************************************************************)
EXTENDS Integers, Sequences, FiniteSets, TLC

\* ---------------------------------------------------------------- bounds
MaxElems == 3

\* changes the page makes to the document after the ready signal
MaxPageOps == 1

\* ------------------------------------------------------ program constants
Stride == 700

CardMarker == "draw-card"

RevealedMarker == "revealed"

\* ------------------------------------------------------------ model sets
Elems == 1..MaxElems

\* a class the script never names, standing for any other class of the page
OtherMarker == "rare"

\* class attributes an element may carry when the page is delivered
InitClassSets ==
    { {CardMarker}, {CardMarker, RevealedMarker}, {CardMarker, OtherMarker}, {OtherMarker} }

\* granularity of the clock
TickMs == Stride \div 2

VARIABLES
    doc,            \* the elements in the document, in document order
    classList,      \* classList[e]: the class set of element e
    pc,             \* "loading" | "ready1" (first listener done) | "idle"
    cards,          \* cards[l]: the NodeList const of listener l
    timers,         \* the timers set, in registration order
    clock,          \* ms since the ready signal
    readyDoc,       \* history: doc when the ready signal was delivered
    readyClassList, \* history: classList when the ready signal was delivered
    pageClassList,  \* history: the class sets as the page alone made them
    revealCalls,    \* history: revealCalls[e] = times the callback ran on e
    pageOps,        \* history: number of changes the page has made
    queries,        \* history: number of querySelectorAll calls
    soloTimers,     \* the timers of the script with the first listener only
    soloClassList   \* the class sets under the script with one listener

vars == <<doc, classList, pc, cards, timers, clock,
          readyDoc, readyClassList, pageClassList, revealCalls, pageOps,
          queries, soloTimers, soloClassList>>

\* ------------------------------------------------------------- helpers
Range(s) == { s[i] : i \in 1..Len(s) }

\* variant: the selector is ignored ('*')
QuerySelectorAllAny(d, cl, cls) == d

\* variant: querySelector, the first match only
QuerySelectorFirst(d, cl, cls) ==
    LET all == SelectSeq(d, LAMBDA e : cls \in cl[e])
    IN  IF all = <<>> THEN <<>> ELSE <<all[1]>>

\* document.querySelectorAll('.<cls>'): a static NodeList, document order
QuerySelectorAll(d, cl, cls) == SelectSeq(d, LAMBDA e : cls \in cl[e])

\* variant: the same delay for every index
DelayFlat(index) == Stride

\* variant: the stride counted from the second card
DelayOffByOne(index) == IF index = 0 THEN 0 ELSE (index - 1) * Stride

\* variant: the stride counted down from the first card
DelayDescending(index) == (MaxElems - index) * Stride

\* the delay argument of setTimeout: index * 700
Delay(index) == index * Stride

\* variant: the timer is cleared as soon as it is set
SetTimeoutCleared(l, card, index, now) ==
    [ listener |-> l, card |-> card, index |-> index,
      delay |-> Delay(index), due |-> now + Delay(index), fired |-> TRUE ]

\* setTimeout(callback, delay) called at time now by listener l for the
\* element card at forEach index index
SetTimeout(l, card, index, now) ==
    [ listener |-> l, card |-> card, index |-> index,
      delay |-> Delay(index), due |-> now + Delay(index), fired |-> FALSE ]

\* cards.forEach((card, index) => setTimeout(...))
ForEach(l, nodeList, now) ==
    [ i \in 1..Len(nodeList) |-> SetTimeout(l, nodeList[i], i - 1, now) ]

\* variant: classList.toggle(token)
ClassListToggle(cs, token) == IF token \in cs THEN cs \ {token} ELSE cs \cup {token}

\* variant: className = token
ClassNameAssign(cs, token) == {token}

\* element.classList.add(token)
ClassListAdd(cs, token) == cs \cup {token}

\* variant: the callback looks the index up in the document as it is now
CallbackTargetLive(t, d, cl) ==
    LET live == SelectSeq(d, LAMBDA e : CardMarker \in cl[e])
    IN  IF t.index + 1 <= Len(live) THEN live[t.index + 1] ELSE t.card

\* the element the callback acts on: the card captured by the closure
CallbackTarget(t, d, cl) == t.card

\* variant: the delay is not waited for
ElapsedAlways(t, now) == TRUE

\* a timer's delay has elapsed
Elapsed(t, now) == t.due <= now

\* variant: timer tasks run as soon as the first listener has returned
EventLoopIdleAfterFirst(p) == p # "loading"

\* timer tasks run only once the dispatch of the event has returned
EventLoopIdle(p) == p = "idle"

\* the timer task that runs next: its delay has elapsed, no pending timer is
\* due earlier, and no pending timer set before it has a delay that is not
\* longer
Runnable(k) ==
    /\ ~timers[k].fired
    /\ Elapsed(timers[k], clock)
    /\ \A j \in 1..Len(timers) :
          ~timers[j].fired =>
             /\ ~(timers[j].due < timers[k].due)
             /\ ~(j < k /\ timers[j].delay <= timers[k].delay)

\* ---------------------------------------------------------------- Init
Init ==
    /\ \E n \in 0..MaxElems : doc = [ i \in 1..n |-> i ]
    /\ classList \in [Elems -> InitClassSets]
    /\ pc = "loading"
    /\ cards = [ l \in 1..2 |-> <<>> ]
    /\ timers = <<>>
    /\ clock = 0
    /\ readyDoc = <<>>
    /\ readyClassList = [ e \in Elems |-> {} ]
    /\ pageClassList = classList
    /\ revealCalls = [ e \in Elems |-> 0 ]
    /\ pageOps = 0
    /\ queries = 0
    /\ soloTimers = <<>>
    /\ soloClassList = classList

\* ------------------------------------------------------------- actions
\* the body of a DOMContentLoaded listener
RunListener(l) ==
    LET nodeList == QuerySelectorAll(doc, classList, CardMarker)
    IN  /\ cards' = [cards EXCEPT ![l] = nodeList]
        /\ timers' = timers \o ForEach(l, nodeList, clock)
        /\ queries' = queries + 1

\* the script with lines 1-8 only, run on the same page: its one listener
SoloListener ==
    soloTimers' = ForEach(1, QuerySelectorAll(doc, classList, CardMarker), clock)

\* the first listener; the ready signal is delivered here
DOMContentLoaded1 ==
    /\ pc = "loading"
    /\ RunListener(1)
    /\ pc' = "ready1"
    /\ readyDoc' = doc
    /\ readyClassList' = classList
    /\ SoloListener
    /\ UNCHANGED <<doc, classList, clock, pageClassList, revealCalls, pageOps,
                   soloClassList>>

\* the second listener, run by the same dispatch right after the first
DOMContentLoaded2 ==
    /\ pc = "ready1"
    /\ RunListener(2)
    /\ pc' = "idle"
    /\ UNCHANGED <<doc, classList, clock, readyDoc, readyClassList,
                   pageClassList, revealCalls, pageOps, soloTimers,
                   soloClassList>>

\* time passes: during the dispatch, less than one stride of it; afterwards
\* the clock is followed until the last pending timer is due
Tick ==
    /\ \/ pc = "ready1" /\ clock + TickMs < Stride
       \/ pc = "idle" /\ \E k \in 1..Len(timers) :
                            ~timers[k].fired /\ clock < timers[k].due
    /\ clock' = clock + TickMs
    /\ UNCHANGED <<doc, classList, pc, cards, timers, readyDoc, readyClassList,
                   pageClassList, revealCalls, pageOps, queries, soloTimers,
                   soloClassList>>

\* the callback of timer k runs: card.classList.add('revealed')
FireTimer(k) ==
    /\ EventLoopIdle(pc)
    /\ Runnable(k)
    /\ LET target == CallbackTarget(timers[k], doc, classList)
       IN  /\ classList' = [classList EXCEPT
                               ![target] = ClassListAdd(@, RevealedMarker)]
           /\ revealCalls' = [revealCalls EXCEPT ![target] = @ + 1]
    /\ timers' = [timers EXCEPT ![k].fired = TRUE]
    /\ UNCHANGED <<doc, pc, cards, clock, readyDoc, readyClassList,
                   pageClassList, pageOps, queries, soloTimers, soloClassList>>

Fire == \E k \in 1..Len(timers) : FireTimer(k)

\* the page inserts a detached element into the document at position p
PageInsert ==
    /\ pc = "idle"
    /\ pageOps < MaxPageOps
    /\ pageOps' = pageOps + 1
    /\ \E e \in Elems \ Range(doc), p \in 0..Len(doc) :
          doc' = SubSeq(doc, 1, p) \o <<e>> \o SubSeq(doc, p + 1, Len(doc))
    /\ UNCHANGED <<classList, pc, cards, timers, clock, readyDoc,
                   readyClassList, pageClassList, revealCalls, queries,
                   soloTimers, soloClassList>>

\* the page gives the card marker to an element of the document
PageAddMarker ==
    /\ pc = "idle"
    /\ pageOps < MaxPageOps
    /\ pageOps' = pageOps + 1
    /\ \E e \in Range(doc) :
          /\ CardMarker \notin classList[e]
          /\ classList' = [classList EXCEPT ![e] = @ \cup {CardMarker}]
          /\ pageClassList' = [pageClassList EXCEPT ![e] = @ \cup {CardMarker}]
          /\ soloClassList' = [soloClassList EXCEPT ![e] = @ \cup {CardMarker}]
    /\ UNCHANGED <<doc, pc, cards, timers, clock, readyDoc, readyClassList,
                   revealCalls, queries, soloTimers>>

Next ==
    \/ DOMContentLoaded1
    \/ DOMContentLoaded2
    \/ Tick
    \/ Fire
    \/ PageInsert
    \/ PageAddMarker

Spec == Init /\ [][Next]_vars

\* timers are delivered without starvation and the page is not torn down
FairSpec ==
    /\ Spec
    /\ WF_vars(DOMContentLoaded1)
    /\ WF_vars(DOMContentLoaded2)
    /\ WF_vars(Tick)
    /\ WF_vars(Fire)

\* the timer task of the one-listener script that runs next
SoloRunnable(k) ==
    /\ ~soloTimers[k].fired
    /\ Elapsed(soloTimers[k], clock)
    /\ \A j \in 1..Len(soloTimers) :
          ~soloTimers[j].fired =>
             /\ ~(soloTimers[j].due < soloTimers[k].due)
             /\ ~(j < k /\ soloTimers[j].delay <= soloTimers[k].delay)

\* a callback of the one-listener script runs; its dispatch is over as soon
\* as its listener has returned
SoloFireTimer(k) ==
    /\ pc # "loading"
    /\ SoloRunnable(k)
    /\ LET target == CallbackTarget(soloTimers[k], doc, soloClassList)
       IN  soloClassList' = [soloClassList EXCEPT
                                ![target] = ClassListAdd(@, RevealedMarker)]
    /\ soloTimers' = [soloTimers EXCEPT ![k].fired = TRUE]
    /\ UNCHANGED <<doc, classList, pc, cards, timers, clock, readyDoc,
                   readyClassList, pageClassList, revealCalls, pageOps, queries>>

SoloFire == \E k \in 1..Len(soloTimers) : SoloFireTimer(k)

\* the script and the one-listener script stepped together on one page and
\* one clock
PairNext ==
    \/ Next
    \/ SoloFire

PairSpec == Init /\ [][PairNext]_vars

\* ------------------------------------------------- vocabulary of the claims
\* e matched '.draw-card' when the ready signal was delivered
Matched(e) == e \in Range(readyDoc) /\ CardMarker \in readyClassList[e]

\* 0-based ordinal of a matched element among the matched ones at ready
Ordinal(e) ==
    LET pos == CHOOSE i \in 1..Len(readyDoc) : readyDoc[i] = e
    IN  Cardinality({ j \in 1..(pos - 1) : Matched(readyDoc[j]) })

NumMatched == Cardinality({ e \in Elems : Matched(e) })

TimersFor(e) == { k \in 1..Len(timers) : timers[k].card = e }

AllFired == \A k \in 1..Len(timers) : timers[k].fired

AllMatchedRevealed == \A e \in Elems : Matched(e) => RevealedMarker \in classList[e]

\* e matches '.draw-card' in the document now but did not at the ready signal
Latecomer(e) == ~Matched(e) /\ e \in Range(doc) /\ CardMarker \in classList[e]

\* the matched elements at the ready signal, in document order
ReadySnapshot == SelectSeq(readyDoc, Matched)

\* ------------------------------------------------------------------ C1
\* C1: once the ready signal has been fully handled, exactly N timers have
\* been set in total, one for every matched element: no matched element has
\* two timers or none.
C1_ExactlyOneActionPerElement ==
    pc = "idle" =>
        /\ Len(timers) = NumMatched
        /\ \A e \in Elems : Matched(e) => Cardinality(TimersFor(e)) = 1

\* ------------------------------------------------------------------ C2
\* C2: every timer set for the element at 0-based index i of a listener's
\* snapshot has delay exactly 700 * i, and every index of a snapshot has its
\* timer.
C2_DelayIsStrideTimesIndex ==
    /\ \A k \in 1..Len(timers) :
          LET t == timers[k]
          IN  /\ t.index \in 0..(Len(cards[t.listener]) - 1)
              /\ cards[t.listener][t.index + 1] = t.card
              /\ t.delay = 700 * t.index
    /\ \A l \in 1..2 : \A i \in 1..Len(cards[l]) :
          \E k \in 1..Len(timers) :
             /\ timers[k].listener = l
             /\ timers[k].index = i - 1
             /\ timers[k].delay = 700 * (i - 1)

\* three cards in document order have pending timers of 0, 700 and 1400 ms
C2_Witness ==
    /\ pc = "idle"
    /\ cards[1] = <<1, 2, 3>>
    /\ \A i \in 1..3 : \E k \in 1..Len(timers) :
          /\ timers[k].card = i
          /\ ~timers[k].fired
          /\ timers[k].delay = (i - 1) * 700

\* ------------------------------------------------------------------ C3
\* C3: with timers delivered fairly, the script reaches and stays in a state
\* where every element matched at the ready signal carries 'revealed', and
\* whenever all timers set have run, all matched elements carry it.
C3_EventuallyAllRevealed ==
    /\ <>[](pc = "idle" /\ AllMatchedRevealed)
    /\ [](pc = "idle" /\ AllFired => AllMatchedRevealed)

C3_Witness ==
    /\ pc = "idle"
    /\ AllFired
    /\ NumMatched >= 2
    /\ AllMatchedRevealed
    /\ \E e \in Elems : Matched(e) /\ RevealedMarker \notin readyClassList[e]

\* ------------------------------------------------------------------ C4
\* C4: callbacks run in snapshot index order: a timer of index j has run only
\* if every timer of every smaller index has run.
C4_FiringFollowsIndexOrder ==
    \A j, k \in 1..Len(timers) :
        (timers[k].fired /\ timers[j].index < timers[k].index) => timers[j].fired

\* a timer of index 1 has run while the timers of index 2 are still pending,
\* in a dispatch during which the clock moved between the two listeners
C4_Witness ==
    /\ \E k \in 1..Len(timers) : timers[k].fired /\ timers[k].index = 1
    /\ \E k \in 1..Len(timers) : ~timers[k].fired /\ timers[k].index = 2
    /\ \E k \in 1..Len(timers) : timers[k].listener = 2 /\ timers[k].due > timers[k].delay

\* ------------------------------------------------------------------ C5
\* C5: the callback for index i never runs while the clock is below 700 * i,
\* so an element of ordinal i that was not revealed at the ready signal is
\* never revealed before 700 * i ms.
C5_NeverBeforeDelay ==
    /\ \A k \in 1..Len(timers) :
          timers[k].fired => clock >= 700 * timers[k].index
    /\ \A e \in Elems :
          (/\ Matched(e)
           /\ RevealedMarker \notin readyClassList[e]
           /\ RevealedMarker \in classList[e]) => clock >= 700 * Ordinal(e)

\* the second card is revealed exactly when its delay has elapsed
C5_Witness ==
    \E e \in Elems :
        /\ Matched(e)
        /\ Ordinal(e) = 1
        /\ RevealedMarker \notin readyClassList[e]
        /\ RevealedMarker \in classList[e]
        /\ clock = 700

\* ------------------------------------------------------------------ C6
\* C6: 'revealed' is monotonic: no step removes it from an element that
\* carries it.
C6_RevealedMonotonic ==
    [][\A e \in Elems :
          RevealedMarker \in classList[e] => RevealedMarker \in classList'[e]]_vars

\* the callback has run a second time on an element that was already revealed
C6_Witness ==
    \E e \in Elems : revealCalls[e] = 2 /\ RevealedMarker \in classList[e]

\* ------------------------------------------------------------------ C7
\* C7: after all timers have run, the reveal callback has run exactly once
\* on every matched element.
C7_RevealRunsExactlyOnce ==
    (pc = "idle" /\ AllFired) =>
        \A e \in Elems : Matched(e) => revealCalls[e] = 1

\* ------------------------------------------------------------------ C8
\* C8: an element that did not match '.draw-card' at the ready signal is never
\* changed by the script (its class set is what the page alone made it), has
\* no timer, is in no snapshot, and does not count towards N.
C8_UnmatchedUntouched ==
    /\ \A e \in Elems :
          ~Matched(e) =>
             /\ classList[e] = pageClassList[e]
             /\ revealCalls[e] = 0
             /\ TimersFor(e) = {}
             /\ \A l \in 1..2 : e \notin Range(cards[l])
    /\ \A l \in 1..2 : Len(cards[l]) <= NumMatched

\* all timers have run on a document that held a card and an element that
\* was not a card
C8_Witness ==
    /\ pc = "idle"
    /\ AllFired
    /\ NumMatched >= 1
    /\ \E e \in Range(readyDoc) : ~Matched(e) /\ classList[e] = readyClassList[e]

\* ------------------------------------------------------------------ C9
\* C9: the class set of a matched element always contains its class set at
\* the ready signal and exceeds it by at most 'revealed'.
C9_OnlyRevealedAdded ==
    \A e \in Elems :
        Matched(e) =>
           /\ readyClassList[e] \subseteq classList[e]
           /\ classList[e] \ readyClassList[e] \subseteq {"revealed"}

\* a card with another class has been revealed and kept that class
C9_Witness ==
    \E e \in Elems :
        /\ Matched(e)
        /\ revealCalls[e] = 2
        /\ readyClassList[e] = {CardMarker, OtherMarker}
        /\ classList[e] = {CardMarker, OtherMarker, RevealedMarker}

\* ----------------------------------------------------------------- C10
\* C10: the elements acted on are the snapshot of the ready signal: an element
\* that matches only later (marker added, or inserted) never has a timer and
\* is never revealed by the script, and every timer keeps the index and delay
\* its element had in the snapshot.
C10_SnapshotFixedAtReady ==
    /\ \A e \in Elems :
          Latecomer(e) =>
             /\ TimersFor(e) = {}
             /\ revealCalls[e] = 0
             /\ classList[e] = pageClassList[e]
    /\ \A k \in 1..Len(timers) :
          /\ Matched(timers[k].card)
          /\ timers[k].index = Ordinal(timers[k].card)
          /\ timers[k].delay = Stride * Ordinal(timers[k].card)
    /\ pc = "idle" => \A l \in 1..2 : cards[l] = ReadySnapshot

\* a latecomer stands before a snapshot card in the document, and all timers
\* have run
C10_Witness ==
    /\ pc = "idle"
    /\ AllFired
    /\ \E e \in Elems, c \in Elems :
          /\ Latecomer(e)
          /\ Matched(c)
          /\ \E i, j \in 1..Len(doc) : i < j /\ doc[i] = e /\ doc[j] = c

\* ----------------------------------------------------------------- C11
\* C11: the document is queried for card elements exactly once per page
\* load: no query follows the first.
C11_QueriedExactlyOnce == queries <= 1

\* ----------------------------------------------------------------- C12
\* C12: when no element matches '.draw-card' at the ready signal, handling
\* the signal sets no timer, runs to its end (the script is idle, no callback
\* is enabled), and the script never changes any class set.
NoCardInDocument == \A e \in Range(doc) : CardMarker \notin classList[e]

C12_ZeroMatchesNoWork ==
    /\ [](NumMatched = 0 =>
             /\ timers = <<>>
             /\ \A l \in 1..2 : cards[l] = <<>>
             /\ classList = pageClassList
             /\ \A e \in Elems : revealCalls[e] = 0
             /\ ~ENABLED Fire)
    /\ (pc = "loading" /\ NoCardInDocument) ~> (pc = "idle" /\ timers = <<>>)

\* both listeners have run on a document that holds elements, none a card
C12_Witness ==
    /\ pc = "idle"
    /\ NumMatched = 0
    /\ Len(readyDoc) >= 2
    /\ queries = 2
    /\ timers = <<>>

\* ----------------------------------------------------------------- C13
\* C13: the reveal callback is idempotent: run on an element that already
\* carries 'revealed', it leaves that element's class set unchanged.
C13_RevealIdempotent ==
    [][\A e \in Elems :
          (revealCalls'[e] # revealCalls[e] /\ RevealedMarker \in classList[e])
             => classList'[e] = classList[e]]_vars

\* the callback has run on an element that was revealed before the ready
\* signal, and on one revealed by the earlier callback
C13_Witness ==
    /\ \E e \in Elems :
          /\ Matched(e)
          /\ RevealedMarker \in readyClassList[e]
          /\ revealCalls[e] >= 1
          /\ classList[e] = readyClassList[e]
    /\ \E e \in Elems :
          /\ Matched(e)
          /\ RevealedMarker \notin readyClassList[e]
          /\ revealCalls[e] = 2

\* ----------------------------------------------------------------- C14
\* C14: no timer is cancelled and each is one-shot: a callback never runs
\* more often than timers were set for its element, a timer is marked done
\* only by running, and under fair delivery the script reaches and stays in
\* a state where every timer set has run once, none is pending and no
\* callback is enabled.
TimersDone(e) == { k \in TimersFor(e) : timers[k].fired }

Quiescent ==
    /\ pc = "idle"
    /\ AllFired
    /\ \A e \in Elems : revealCalls[e] = Cardinality(TimersFor(e))
    /\ ~ENABLED Fire

C14_AllFireOnceThenQuiescent ==
    /\ [](\A e \in Elems : revealCalls[e] = Cardinality(TimersDone(e)))
    /\ <>[]Quiescent

\* three cards: six timers have run and nothing is pending
C14_Witness ==
    /\ Quiescent
    /\ Len(timers) = 6
    /\ \A e \in Elems : Matched(e) /\ revealCalls[e] = 2

\* ----------------------------------------------------------------- C15
\* C15: no callback runs before the dispatch of the ready signal has set
\* every timer: while the dispatch is not over no timer has run and the
\* script has changed no class set, and once a timer has run both snapshots
\* are complete and every index of both has its timer.
C15_NoFiringDuringDispatch ==
    /\ pc # "idle" =>
          /\ \A k \in 1..Len(timers) : ~timers[k].fired
          /\ \A e \in Elems : revealCalls[e] = 0
          /\ classList = pageClassList
    /\ (\E k \in 1..Len(timers) : timers[k].fired) =>
          \A l \in 1..2 :
             /\ cards[l] = ReadySnapshot
             /\ \A i \in 1..Len(ReadySnapshot) :
                   \E k \in 1..Len(timers) :
                      /\ timers[k].listener = l
                      /\ timers[k].card = ReadySnapshot[i]

\* the delay-0 timer of the first listener has just run, alone, with the
\* timers of both listeners set
C15_Witness ==
    /\ NumMatched >= 2
    /\ Len(timers) = 2 * NumMatched
    /\ Cardinality({ k \in 1..Len(timers) : timers[k].fired }) = 1
    /\ timers[1].fired
    /\ clock = 0

\* ----------------------------------------------------------------- C16
\* C16: when no matched element carries 'revealed' at the ready signal, the
\* snapshot elements that carry 'revealed' always form a prefix of the
\* snapshot order.
NoneRevealedAtReady ==
    \A e \in Elems : Matched(e) => RevealedMarker \notin readyClassList[e]

C16_RevealedIsPrefix ==
    NoneRevealedAtReady =>
        \A i \in 1..(Len(ReadySnapshot) - 1) :
            RevealedMarker \in classList[ReadySnapshot[i + 1]]
               => RevealedMarker \in classList[ReadySnapshot[i]]

\* of three cards the first two are revealed and the third is not yet
C16_Witness ==
    /\ NoneRevealedAtReady
    /\ Len(ReadySnapshot) = 3
    /\ RevealedMarker \in classList[ReadySnapshot[1]]
    /\ RevealedMarker \in classList[ReadySnapshot[2]]
    /\ RevealedMarker \notin classList[ReadySnapshot[3]]

\* ----------------------------------------------------------------- C17
\* C17: the script with its two listeners is equivalent on element state to
\* the script with one: both listeners hold the same snapshot in the same
\* order, and whenever neither script has a pending timer whose delay has
\* elapsed every element has the same class set under both; so the final
\* class sets are the same.
NoneOverdue ==
    /\ pc = "idle"
    /\ \A k \in 1..Len(timers) : timers[k].fired \/ ~Elapsed(timers[k], clock)
    /\ \A k \in 1..Len(soloTimers) :
          soloTimers[k].fired \/ ~Elapsed(soloTimers[k], clock)

C17_TwoListenersAsOne ==
    /\ pc = "idle" => cards[1] = cards[2]
    /\ NoneOverdue => classList = soloClassList

\* between two strides: the first card is revealed under both scripts, by
\* two callbacks under one and by one under the other, the second card under
\* neither
C17_Witness ==
    /\ NoneOverdue
    /\ clock = TickMs
    /\ Len(cards[1]) >= 2
    /\ revealCalls[cards[1][1]] = 2
    /\ RevealedMarker \notin readyClassList[cards[1][1]]
    /\ RevealedMarker \in soloClassList[cards[1][1]]
    /\ RevealedMarker \notin classList[cards[1][2]]
    /\ \E k \in 1..Len(soloTimers) : ~soloTimers[k].fired

====
